---- MODULE Spec2Model ----
(***************************************************************************)
(* The export proxy of ecommerce-dashboard-proxy as a state machine.       *)
(*                                                                         *)
(*   app.py           /api/data  -> stream_data(): a generator that opens  *)
(*                    a Snowflake session, runs the catalog `queries` in   *)
(*                    order and yields one NDJSON line per fetched chunk.  *)
(*   proxy_server.py  /api/query -> api_query(): runs one caller-supplied  *)
(*                    SELECT and returns its rows.                         *)
(*                                                                         *)
(* The warehouse driver, the key parser and the HTTP client are the        *)
(* environment: their outcomes (connect ok/failed, statement ok/failed,    *)
(* the rows and the chunking of a result, the client going away) are       *)
(* nondeterministic inputs.                                                *)
(***************************************************************************)
EXTENDS Integers, Sequences, FiniteSets, TLC

(* ------------------------------ bounds --------------------------------- *)

\* The catalog is modelled by its first NumDatasets entries.
NumDatasets == 2

\* Rows the warehouse returns in one export, summed over all its statements.
MaxRows == 3

\* The rows all statements of all requests return together, when two
\* requests are served concurrently.
MaxRowsConc == 1

(* ----------------------------- the catalog ----------------------------- *)

\* The keys of `queries`, in insertion order (dict iteration order).
queries ==
    << "productCosts", "orders", "refunds", "shipping",
       "inventory_product_level_snap", "inventory_warehouse_level_snap" >>

\* Catalog, but iterated as sorted(queries): by name, not by insertion.
CatalogSorted ==
    SelectSeq(<< "inventory_product_level_snap", "inventory_warehouse_level_snap",
                 "orders", "productCosts", "refunds", "shipping" >>,
              LAMBDA k : \E i \in 1..NumDatasets : queries[i] = k)

Catalog == SubSeq(queries, 1, NumDatasets)

CatalogNames == { Catalog[i] : i \in 1..Len(Catalog) }

(* ------------------------------ requests ------------------------------- *)

Req == {"r1", "r2"}

Handles == 1..Cardinality(Req)

(* ---------------------------- configuration ---------------------------- *)

\* PRIVATE_KEY_STR, by what the code can tell apart:
\*   absent       the variable is not set (os.environ.get returns None)
\*   empty        the variable is the empty string
\*   b64pem       base64 of an unencrypted PEM private key
\*   rawpem_pad   raw PEM text whose base64-alphabet characters happen to
\*                form a correctly padded string (b64decode returns bytes)
\*   rawpem_nopad raw PEM text on which b64decode raises (bad padding)
\*   junk         any other text; b64decode returns bytes that are not PEM
KeyStrs == {"absent", "empty", "b64pem", "rawpem_pad", "rawpem_nopad", "junk"}

\* The connection variables that are not set.  "user" stands for
\* SNOWFLAKE_USERNAME (app.py) or SNOWFLAKE_USER (proxy_server.py).
MissingChoices ==
    { {}, {"user"}, {"account"}, {"warehouse"}, {"database"}, {"schema"},
      {"role"}, {"warehouse", "database", "schema", "role"} }

(* ------------------------------ row data ------------------------------- *)

\* A row is one cell; a cell is known by its kind:
\*   plain  a finite number, a string, a boolean or None
\*   nan    a non-finite float: float('nan'); float('inf') and
\*          float('-inf') take the same path through the code
\*   ts     datetime / date / pandas.Timestamp
\*   obj    any object json does not know and json_converter does not
\*          convert (bytes, decimal.Decimal, datetime.time, ...)
Cells == {"plain", "nan", "ts", "obj"}

RECURSIVE SeqsUpTo(_, _)
SeqsUpTo(S, n) ==
    IF n = 0 THEN { <<>> }
    ELSE LET shorter == SeqsUpTo(S, n - 1)
         IN  shorter \cup { Append(s, x) : s \in { t \in shorter : Len(t) = n - 1 }, x \in S }

RECURSIVE SumLen(_, _)
SumLen(f, S) ==
    IF S = {} THEN 0
    ELSE LET x == CHOOSE y \in S : TRUE
         IN  Len(f[x]) + SumLen(f, S \ {x})

VARIABLES
    env,        \* the process environment: [key, missing]
    handler,    \* per request: "none", "stream_data" or "api_query"
    sql,        \* api_query: the statement after strip()
    pc,         \* per request: where its handler stands
    ds,         \* stream_data: index in Catalog of the current entry
    pending,    \* stream_data: rows of the current result not yet fetched
    batch,      \* stream_data: df_chunk, the chunk fetched and not yet encoded
    conn,       \* the handler's local `conn`: 0 is None, else a session handle
    acq,        \* history: the handle snowflake.connector.connect returned (0: none)
    sess,       \* per handle: "free", "open" or "closed"
    closes,     \* history, per request: conn.close() calls of its handler
    out,        \* stream_data: the lines yielded so far
    resp,       \* api_query: HTTP status of the response (0: none yet)
    rows,       \* history: per request and dataset, the rows of its result
    nchunks,    \* history: per request and dataset, chunks the fetcher produced
    failed,     \* history: the kind of the exception raised ("none": none)
    disc,       \* history: the client closed the stream (GeneratorExit)
    connects,   \* history: calls of snowflake.connector.connect
    stmts,      \* history: the statements executed, in order
    parsed      \* history: the bytes handed to load_pem_private_key ("none": not called)

vars ==
    << env, handler, sql, pc, ds, pending, batch, conn, acq, sess, closes,
       out, resp, rows, nchunks, failed, disc, connects, stmts, parsed >>

(* ------------------------- credential loading -------------------------- *)

\* KeyMissing, but testing `is None` only: the empty string passes.
KeyMissingNoneOnly(k) == k = "absent"

\* `if not private_key_b64` / `if not key_str`: None and "" are both falsy.
KeyMissing(k) == k \in {"absent", "empty"}

\* base64.b64decode(key_str): whether it raises, and the bytes it returns.
B64Decode(k) ==
    CASE k = "b64pem"       -> [raised |-> FALSE, bytes |-> "pem"]
      [] k = "rawpem_pad"   -> [raised |-> FALSE, bytes |-> "garbage"]
      [] k = "rawpem_nopad" -> [raised |-> TRUE,  bytes |-> "none"]
      [] k = "junk"         -> [raised |-> FALSE, bytes |-> "garbage"]
      [] OTHER              -> [raised |-> FALSE, bytes |-> "nothing"]

\* key_str.encode("utf-8"): the text itself as bytes.
EncodeUtf8(k) ==
    CASE k \in {"rawpem_pad", "rawpem_nopad"} -> "pem"
      [] k = "b64pem"                          -> "b64text"
      [] k = "junk"                            -> "junktext"
      [] OTHER                                 -> "nothing"

\* serialization.load_pem_private_key succeeds on PEM bytes only.
LoadPem(bytes) == bytes = "pem"

\* app.py: the key part of get_snowflake_connection; "ok" or the failure.
AppCredential(k) ==
    IF KeyMissing(k) THEN "key_missing"
    ELSE IF B64Decode(k).raised THEN "key_decode"
    ELSE IF ~LoadPem(B64Decode(k).bytes) THEN "key_format"
    ELSE "ok"

\* app.py: what get_snowflake_connection hands to load_pem_private_key:
\* the decoded bytes, when it gets that far.
AppParsed(k) ==
    IF KeyMissing(k) \/ B64Decode(k).raised THEN "none" ELSE B64Decode(k).bytes

\* app.py: `if not all([conn_params['user'], conn_params['account']])`.
AppConfigOk(missing) == missing \cap {"user", "account"} = {}

\* proxy_server.py: the bytes _load_private_key_from_env hands to the parser.
ProxyKeyBytes(k) ==
    IF B64Decode(k).raised THEN EncodeUtf8(k) ELSE B64Decode(k).bytes

\* proxy_server.py: _load_private_key_from_env; "ok" or the failure.
ProxyCredential(k) ==
    IF KeyMissing(k) THEN "key_missing"
    ELSE IF ~LoadPem(ProxyKeyBytes(k)) THEN "key_format"
    ELSE "ok"

\* ProxyConfigOk, but with role in the list of required variables.
ProxyConfigOkWithRole(missing) ==
    missing \cap {"account", "user", "role", "warehouse", "database", "schema"} = {}

\* proxy_server.py: `if not all([account, user, warehouse, database, schema])`.
ProxyConfigOk(missing) ==
    missing \cap {"account", "user", "warehouse", "database", "schema"} = {}

\* proxy_server.py: what get_snowflake_connection, through
\* _load_private_key_from_env, hands to load_pem_private_key.
ProxyParsed(missing, k) ==
    IF ~ProxyConfigOk(missing) \/ KeyMissing(k) THEN "none" ELSE ProxyKeyBytes(k)

(* ------------------------------ encoding ------------------------------- *)

\* A variant of json_converter that falls back to str(o) instead of
\* raising TypeError.
json_converter_str(c) ==
    IF c = "ts" THEN [raised |-> FALSE, token |-> "\"2024-01-01T00:00:00\""]
    ELSE [raised |-> FALSE, token |-> "\"str\""]

\* json_converter, the `default` of json.dumps: converts date/time objects,
\* raises TypeError on anything else.
json_converter(c) ==
    IF c = "ts" THEN [raised |-> FALSE, token |-> "\"2024-01-01T00:00:00\""]
    ELSE [raised |-> TRUE, token |-> "none"]

\* json.dumps of one cell, allow_nan left at its default (True).
DumpCell(c) ==
    CASE c = "plain" -> [raised |-> FALSE, token |-> "1.5"]
      [] c = "nan"   -> [raised |-> FALSE, token |-> "NaN"]
      [] OTHER       -> json_converter(c)

\* json.dumps(payload, default=json_converter) raises on the first cell
\* that cannot be encoded.
DumpRaises(chunk) == \E i \in 1..Len(chunk) : DumpCell(chunk[i]).raised

DumpData(chunk) == [ i \in 1..Len(chunk) |-> DumpCell(chunk[i]).token ]

\* SuccessLine, but with only the first record of the chunk in the payload.
SuccessLineFirstRecord(key, chunk) ==
    [type |-> key, data |-> DumpData(SubSeq(chunk, 1, 1))]

SuccessLine(key, chunk) == [type |-> key, data |-> DumpData(chunk)]

ErrorLine(kind) == [type |-> "error", message |-> kind]

IsError(line) == line.type = "error"

(* ------------------------------- sessions ------------------------------ *)

\* snowflake.connector.connect returning: a session of its own, now open.
\* A variant of FreshHandle for a program that keeps one session in a
\* module-level variable and hands it to every request.
SharedHandle == CHOOSE h \in Handles : \A g \in Handles : h <= g

FreshHandle == CHOOSE h \in Handles : sess[h] = "free" /\ \A g \in Handles : sess[g] = "free" => h <= g

\* conn.is_closed()
is_closed(h) == sess[h] = "closed"

\* conn.close(), called by the handler of request r on its `conn`.
Close(r) ==
    /\ sess' = [sess EXCEPT ![conn[r]] = "closed"]
    /\ closes' = [closes EXCEPT ![r] = @ + 1]

(* --------------------------- app.py: stream_data ----------------------- *)

Key(r) == Catalog[ds[r]]

RowsUsed(r) == SumLen(rows[r], CatalogNames)

\* The rows returned so far to all the requests of S together.
RECURSIVE RowsOfAll(_)
RowsOfAll(S) ==
    IF S = {} THEN 0
    ELSE LET x == CHOOSE y \in S : TRUE
         IN  RowsUsed(x) + RowsOfAll(S \ {x})

\* The rows the statements may still return: of MaxRows with one request,
\* of MaxRowsConc with two.
RowsLeft ==
    (IF \A r \in Req : handler[r] # "none" THEN MaxRowsConc ELSE MaxRows)
        - RowsOfAll(Req)

\* Raise, but with the lines yielded so far withdrawn: the error line is
\* the whole output.
RaiseRetract(r, kind) ==
    /\ out' = [out EXCEPT ![r] = << ErrorLine(kind) >>]
    /\ failed' = [failed EXCEPT ![r] = kind]
    /\ pc' = [pc EXCEPT ![r] = "yielded_error"]

\* `except Exception as e:` of stream_data: the exception of any statement
\* of the try block lands here, and the handler yields the error line.
Raise(r, kind) ==
    /\ out' = [out EXCEPT ![r] = Append(@, ErrorLine(kind))]
    /\ failed' = [failed EXCEPT ![r] = kind]
    /\ pc' = [pc EXCEPT ![r] = "yielded_error"]

\* Finally, but releasing the session on the success path only.
FinallyOnSuccessOnly(r) ==
    /\ IF conn[r] # 0 /\ ~is_closed(conn[r]) /\ failed[r] = "none"
       THEN Close(r)
       ELSE UNCHANGED << sess, closes >>
    /\ pc' = [pc EXCEPT ![r] = "done"]

\* `finally: if conn and not conn.is_closed(): conn.close()`; the
\* generator is over.
Finally(r) ==
    /\ IF conn[r] # 0 /\ ~is_closed(conn[r])
       THEN Close(r)
       ELSE UNCHANGED << sess, closes >>
    /\ pc' = [pc EXCEPT ![r] = "done"]

\* First next() of the generator: `conn = get_snowflake_connection()` (the
\* app.py one: key, parameters, connect; no verification query) and
\* `cursor = conn.cursor()`.
AppGetConnection(r) ==
    /\ handler[r] = "stream_data"
    /\ pc[r] = "idle"
    /\ LET cred == AppCredential(env.key)
       IN  IF cred # "ok"
           THEN /\ Raise(r, cred)
                /\ UNCHANGED << conn, acq, sess, connects, ds >>
           ELSE IF ~AppConfigOk(env.missing)
           THEN /\ Raise(r, "config")
                /\ UNCHANGED << conn, acq, sess, connects, ds >>
           ELSE /\ connects' = [connects EXCEPT ![r] = @ + 1]
                /\ \E ok \in BOOLEAN :
                      IF ok
                      THEN /\ conn' = [conn EXCEPT ![r] = FreshHandle]
                           /\ acq' = [acq EXCEPT ![r] = FreshHandle]
                           /\ sess' = [sess EXCEPT ![FreshHandle] = "open"]
                           /\ ds' = [ds EXCEPT ![r] = 1]
                           /\ pc' = [pc EXCEPT ![r] = "executing"]
                           /\ UNCHANGED << out, failed >>
                      ELSE /\ Raise(r, "connect")
                           /\ UNCHANGED << conn, acq, sess, ds >>
    /\ parsed' = [parsed EXCEPT ![r] = AppParsed(env.key)]
    /\ UNCHANGED << env, handler, sql, pending, batch, closes, resp, rows,
                    nchunks, disc, stmts >>

\* `cursor.execute(query)` for the current catalog entry; the warehouse
\* answers with a result set or with an error.
Execute(r) ==
    /\ pc[r] = "executing"
    /\ stmts' = [stmts EXCEPT ![r] = Append(@, Key(r))]
    /\ \/ /\ Raise(r, "execute")
          /\ UNCHANGED << pending, rows >>
       \/ /\ \E rs \in SeqsUpTo(Cells, RowsLeft) :
                /\ pending' = [pending EXCEPT ![r] = rs]
                /\ rows' = [rows EXCEPT ![r][Key(r)] = rs]
          /\ pc' = [pc EXCEPT ![r] = "fetching"]
          /\ UNCHANGED << out, failed >>
    /\ UNCHANGED << env, parsed, handler, sql, ds, batch, conn, acq, sess, closes,
                    resp, nchunks, disc, connects >>

\* The end of `for df_chunk in cursor.fetch_pandas_batches()`: the next
\* catalog entry, or past the last one through `finally`.
EndOfDataset(r) ==
    IF ds[r] < Len(Catalog)
    THEN /\ ds' = [ds EXCEPT ![r] = @ + 1]
         /\ pc' = [pc EXCEPT ![r] = "executing"]
         /\ UNCHANGED << sess, closes >>
    ELSE /\ Finally(r)
         /\ UNCHANGED ds

\* One step of the iterator of cursor.fetch_pandas_batches(): the next
\* chunk (a non-empty run of the rows left), the end, or an error.
Fetch(r) ==
    /\ pc[r] = "fetching"
    /\ \/ /\ Raise(r, "fetch")
          /\ UNCHANGED << ds, pending, batch, nchunks, sess, closes >>
       \/ /\ pending[r] = << >>
          /\ EndOfDataset(r)
          /\ UNCHANGED << pending, batch, nchunks, out, failed >>
       \/ /\ pending[r] # << >>
          /\ \E n \in 1..Len(pending[r]) :
                /\ batch' = [batch EXCEPT ![r] = SubSeq(pending[r], 1, n)]
                /\ pending' = [pending EXCEPT ![r] = SubSeq(@, n + 1, Len(@))]
          /\ nchunks' = [nchunks EXCEPT ![r][Key(r)] = @ + 1]
          /\ pc' = [pc EXCEPT ![r] = "encoding"]
          /\ UNCHANGED << ds, out, failed, sess, closes >>
    /\ UNCHANGED << env, parsed, handler, sql, conn, acq, resp, rows, disc, connects,
                    stmts >>

\* A variant of Encode that serialises the chunk into a buffer and goes on
\* to the next fetch without yielding the line.
EncodeNoYield(r) ==
    /\ pc[r] = "encoding"
    /\ IF DumpRaises(batch[r])
       THEN Raise(r, "encode")
       ELSE /\ pc' = [pc EXCEPT ![r] = "fetching"]
            /\ UNCHANGED << out, failed >>
    /\ batch' = [batch EXCEPT ![r] = << >>]
    /\ UNCHANGED << env, parsed, handler, sql, ds, pending, conn, acq, sess, closes,
                    resp, rows, nchunks, disc, connects, stmts >>

\* The loop body: to_dict('records'), the payload, json.dumps and `yield`.
Encode(r) ==
    /\ pc[r] = "encoding"
    /\ IF DumpRaises(batch[r])
       THEN Raise(r, "encode")
       ELSE /\ out' = [out EXCEPT ![r] = Append(@, SuccessLine(Key(r), batch[r]))]
            /\ pc' = [pc EXCEPT ![r] = "yielded"]
            /\ UNCHANGED failed
    /\ batch' = [batch EXCEPT ![r] = << >>]
    /\ UNCHANGED << env, parsed, handler, sql, ds, pending, conn, acq, sess, closes,
                    resp, rows, nchunks, disc, connects, stmts >>

\* The consumer asks for the next line: the generator resumes after the
\* `yield` of the loop body.
Resume(r) ==
    /\ pc[r] = "yielded"
    /\ pc' = [pc EXCEPT ![r] = "fetching"]
    /\ UNCHANGED << env, parsed, handler, sql, ds, pending, batch, conn, acq, sess,
                    closes, out, resp, rows, nchunks, failed, disc, connects,
                    stmts >>

\* ResumeAfterError, but with the except block inside the catalog loop: the
\* export goes on with the next catalog entry.
ResumeAfterErrorNextDataset(r) ==
    /\ pc[r] = "yielded_error"
    /\ IF ds[r] >= 1 /\ ds[r] < Len(Catalog)
       THEN /\ ds' = [ds EXCEPT ![r] = @ + 1]
            /\ pc' = [pc EXCEPT ![r] = "executing"]
            /\ UNCHANGED << sess, closes >>
       ELSE /\ Finally(r)
            /\ UNCHANGED ds
    /\ UNCHANGED << env, parsed, handler, sql, pending, batch, conn, acq, out, resp,
                    rows, nchunks, failed, disc, connects, stmts >>

\* The generator resumes after the `yield` of the except block: nothing is
\* left but `finally`.
ResumeAfterError(r) ==
    /\ pc[r] = "yielded_error"
    /\ Finally(r)
    /\ UNCHANGED << env, parsed, handler, sql, ds, pending, batch, conn, acq, out,
                    resp, rows, nchunks, failed, disc, connects, stmts >>

\* A variant of Disconnect in which the generator's handler catches the
\* close request (`except BaseException`) and emits a line for it.
DisconnectCaught(r) ==
    /\ handler[r] = "stream_data"
    /\ pc[r] \in {"idle", "yielded", "yielded_error"}
    /\ disc' = [disc EXCEPT ![r] = TRUE]
    /\ IF pc[r] = "idle"
       THEN /\ pc' = [pc EXCEPT ![r] = "done"]
            /\ UNCHANGED << sess, closes, out >>
       ELSE /\ out' = [out EXCEPT ![r] = Append(@, ErrorLine("disconnect"))]
            /\ Finally(r)
    /\ UNCHANGED << env, parsed, handler, sql, ds, pending, batch, conn, acq,
                    resp, rows, nchunks, failed, connects, stmts >>

\* The client goes away: the server closes the generator.  Not started, the
\* generator just ends; suspended at a yield, GeneratorExit is raised
\* there, which `except Exception` does not catch, and `finally` runs.
Disconnect(r) ==
    /\ handler[r] = "stream_data"
    /\ pc[r] \in {"idle", "yielded", "yielded_error"}
    /\ disc' = [disc EXCEPT ![r] = TRUE]
    /\ IF pc[r] = "idle"
       THEN /\ pc' = [pc EXCEPT ![r] = "done"]
            /\ UNCHANGED << sess, closes >>
       ELSE Finally(r)
    /\ UNCHANGED << env, parsed, handler, sql, ds, pending, batch, conn, acq, out,
                    resp, rows, nchunks, failed, connects, stmts >>

(* ------------------------ proxy_server.py: api_query ------------------- *)

\* The "sql" member of the request body: absent, a number, or a text (a
\* sequence of characters).
SqlTexts ==
    { << >>,
      << " " >>,
      << "s", "e", "l", "e", "c", "t", " ", "1" >>,
      << " ", "S", "e", "l", "e", "c", "t", " ", "1", " " >>,
      << "S", "E", "L", "E", "C", "T", "X" >>,
      << "s", "e", "l", "e", "c" >>,
      << "d", "r", "o", "p" >> }

SqlInputs ==
    { [kind |-> "absent", text |-> << >>], [kind |-> "number", text |-> << >>] }
        \cup { [kind |-> "text", text |-> t] : t \in SqlTexts }

\* str.strip(): whitespace off both ends.
RECURSIVE LStrip(_)
LStrip(s) == IF s # << >> /\ Head(s) = " " THEN LStrip(Tail(s)) ELSE s

RECURSIVE RStrip(_)
RStrip(s) ==
    IF s # << >> /\ s[Len(s)] = " " THEN RStrip(SubSeq(s, 1, Len(s) - 1)) ELSE s

Strip(s) == RStrip(LStrip(s))

\* str.upper(), on the characters of SqlTexts.
UpperChar(c) ==
    CASE c = "s" -> "S" [] c = "e" -> "E" [] c = "l" -> "L" [] c = "c" -> "C"
      [] c = "t" -> "T" [] c = "d" -> "D" [] c = "r" -> "R" [] c = "o" -> "O"
      [] c = "p" -> "P" [] OTHER -> c

Upper(s) == [ i \in 1..Len(s) |-> UpperChar(s[i]) ]

\* A variant of IsSelect that compares without upper().
IsSelectCaseSensitive(s) ==
    Len(s) >= 6 /\ SubSeq(s, 1, 6) = << "S", "E", "L", "E", "C", "T" >>

\* `sql[:6].upper() == "SELECT"`
IsSelect(s) ==
    Upper(SubSeq(s, 1, IF Len(s) < 6 THEN Len(s) ELSE 6))
        = << "S", "E", "L", "E", "C", "T" >>

\* The except clauses of api_query: a 500 response with the message.
ApiFail(r, kind) ==
    /\ resp' = [resp EXCEPT ![r] = 500]
    /\ failed' = [failed EXCEPT ![r] = kind]
    /\ pc' = [pc EXCEPT ![r] = "done"]

\* The request body is read and the statement checked.  A "sql" that is
\* not a string has no strip(): AttributeError, caught below as a 500.
ApiQueryValidate(r) ==
    /\ handler[r] = "api_query"
    /\ pc[r] = "idle"
    /\ \E in \in SqlInputs :
          IF in.kind = "number"
          THEN /\ ApiFail(r, "attribute")
               /\ UNCHANGED sql
          ELSE /\ sql' = [sql EXCEPT ![r] = Strip(in.text)]
               /\ IF Strip(in.text) = << >> \/ ~IsSelect(Strip(in.text))
                  THEN /\ resp' = [resp EXCEPT ![r] = 400]
                       /\ pc' = [pc EXCEPT ![r] = "done"]
                  ELSE /\ pc' = [pc EXCEPT ![r] = "q_connect"]
                       /\ UNCHANGED resp
               /\ UNCHANGED failed
    /\ UNCHANGED << env, parsed, handler, ds, pending, batch, conn, acq, sess, closes,
                    out, rows, nchunks, disc, connects, stmts >>

\* get_snowflake_connection of proxy_server.py up to the return of
\* snowflake.connector.connect: the required variables, the key, connect.
ProxyGetConnection(r) ==
    /\ pc[r] = "q_connect"
    /\ IF ~ProxyConfigOk(env.missing)
       THEN /\ ApiFail(r, "config")
            /\ UNCHANGED << acq, sess, connects >>
       ELSE IF ProxyCredential(env.key) # "ok"
       THEN /\ ApiFail(r, ProxyCredential(env.key))
            /\ UNCHANGED << acq, sess, connects >>
       ELSE /\ connects' = [connects EXCEPT ![r] = @ + 1]
            /\ \E ok \in BOOLEAN :
                  IF ok
                  THEN /\ acq' = [acq EXCEPT ![r] = FreshHandle]
                       /\ sess' = [sess EXCEPT ![FreshHandle] = "open"]
                       /\ pc' = [pc EXCEPT ![r] = "q_verify"]
                       /\ UNCHANGED << resp, failed >>
                  ELSE /\ ApiFail(r, "connect")
                       /\ UNCHANGED << acq, sess >>
    /\ parsed' = [parsed EXCEPT ![r] = ProxyParsed(env.missing, env.key)]
    /\ UNCHANGED << env, handler, sql, ds, pending, batch, conn, closes, out,
                    rows, nchunks, disc, stmts >>

\* The verification query of get_snowflake_connection, run on the session
\* that connect returned.  When it raises, the exception leaves
\* get_snowflake_connection: api_query's `conn` is never bound and its
\* try/finally is never entered.
ProxyVerify(r) ==
    /\ pc[r] = "q_verify"
    /\ stmts' = [stmts EXCEPT ![r] = Append(@, "verify")]
    /\ \E ok \in BOOLEAN :
          IF ok
          THEN /\ conn' = [conn EXCEPT ![r] = acq[r]]
               /\ pc' = [pc EXCEPT ![r] = "q_execute"]
               /\ UNCHANGED << resp, failed >>
          ELSE /\ ApiFail(r, "verify")
               /\ UNCHANGED conn
    /\ UNCHANGED << env, parsed, handler, sql, ds, pending, batch, acq, sess, closes,
                    out, rows, nchunks, disc, connects >>

\* `cur.execute(sql)`, `cur.fetchall()` and jsonify(rows), inside
\* `try: ... finally: conn.close()`.
ApiQueryExecute(r) ==
    /\ pc[r] = "q_execute"
    /\ stmts' = [stmts EXCEPT ![r] = Append(@, "sql")]
    /\ \E ok \in BOOLEAN :
          failed' = [failed EXCEPT ![r] = IF ok THEN "none" ELSE "execute"]
    /\ pc' = [pc EXCEPT ![r] = "q_finally"]
    /\ UNCHANGED << env, parsed, handler, sql, ds, pending, batch, conn, acq, sess,
                    closes, out, resp, rows, nchunks, disc, connects >>

\* `finally: conn.close()`, then the response: the rows, or the 500 of the
\* except clauses.
ApiQueryFinally(r) ==
    /\ pc[r] = "q_finally"
    /\ Close(r)
    /\ resp' = [resp EXCEPT ![r] = IF failed[r] = "none" THEN 200 ELSE 500]
    /\ pc' = [pc EXCEPT ![r] = "done"]
    /\ UNCHANGED << env, parsed, handler, sql, ds, pending, batch, conn, acq, out,
                    rows, nchunks, failed, disc, connects, stmts >>

(* --------------------------- the specification ------------------------- *)

\* The state after the process has started and the requests of
\* `handlers` have arrived.
InitWith(handlers) ==
    /\ env \in [key : KeyStrs, missing : MissingChoices]
    /\ handler = handlers
    /\ sql = [r \in Req |-> << >>]
    /\ pc = [r \in Req |-> "idle"]
    /\ ds = [r \in Req |-> 0]
    /\ pending = [r \in Req |-> << >>]
    /\ batch = [r \in Req |-> << >>]
    /\ conn = [r \in Req |-> 0]
    /\ acq = [r \in Req |-> 0]
    /\ sess = [h \in Handles |-> "free"]
    /\ closes = [r \in Req |-> 0]
    /\ out = [r \in Req |-> << >>]
    /\ resp = [r \in Req |-> 0]
    /\ rows = [r \in Req |-> [k \in CatalogNames |-> << >>]]
    /\ nchunks = [r \in Req |-> [k \in CatalogNames |-> 0]]
    /\ failed = [r \in Req |-> "none"]
    /\ disc = [r \in Req |-> FALSE]
    /\ connects = [r \in Req |-> 0]
    /\ stmts = [r \in Req |-> << >>]
    /\ parsed = [r \in Req |-> "none"]

\* One request: an export (/api/data) or a query (/api/query).
Init ==
    \E h \in {"stream_data", "api_query"} :
        InitWith([r \in Req |-> IF r = "r1" THEN h ELSE "none"])

Next ==
    \E r \in Req :
        \/ AppGetConnection(r)
        \/ Execute(r)
        \/ Fetch(r)
        \/ Encode(r)
        \/ Resume(r)
        \/ ResumeAfterError(r)
        \/ Disconnect(r)
        \/ ApiQueryValidate(r)
        \/ ProxyGetConnection(r)
        \/ ProxyVerify(r)
        \/ ApiQueryExecute(r)
        \/ ApiQueryFinally(r)

Spec == Init /\ [][Next]_vars

\* Two requests served concurrently by one program, in a valid environment:
\* two exports (app.py) or two queries (proxy_server.py).
InitConc ==
    /\ \E h \in {"stream_data", "api_query"} : InitWith([r \in Req |-> h])
    /\ env = [key |-> "b64pem", missing |-> {}]

SpecConc == InitConc /\ [][Next]_vars

(* ------------------------------ properties ----------------------------- *)

Exports == { r \in Req : handler[r] = "stream_data" }

Queries == { r \in Req : handler[r] = "api_query" }

IsPrefix(s, t) == Len(s) <= Len(t) /\ SubSeq(t, 1, Len(s)) = s

Last(s) == s[Len(s)]

\* C1: on every path of a request (export or query), once the request is
\* over, conn.close() has run exactly once if snowflake.connector.connect
\* returned a session, and not at all if it did not.
C1_ReleasedOnceIffAcquired ==
    \A r \in Req :
        pc[r] = "done" =>
            /\ closes[r] <= 1
            /\ closes[r] = 1 <=> acq[r] # 0

\* C2: in the output of an export, only the last line can be an error
\* line: success lines, then at most one error line, then nothing.
C2_ErrorLineIsLast ==
    \A r \in Exports :
        \A i \in 1..Len(out[r]) : IsError(out[r][i]) => i = Len(out[r])

C2_Witness ==
    \E r \in Exports :
        /\ pc[r] = "done"
        /\ Len(out[r]) >= 2
        /\ IsError(Last(out[r]))
        /\ ~IsError(out[r][1])

\* C3: the step at which an export fails, whatever the kind of failure,
\* appends exactly one error line to the lines yielded so far; before that
\* step the output only grows by success lines, and after it nothing is
\* added, withdrawn or repeated.
C3_OneErrorAtPointOfFailure ==
    [][ \A r \in Exports :
          /\ (failed[r] = "none" /\ failed'[r] # "none")
                => out'[r] = Append(out[r], ErrorLine(failed'[r]))
          /\ failed'[r] = "none"
                => /\ IsPrefix(out[r], out'[r])
                   /\ \A i \in 1..Len(out'[r]) : ~IsError(out'[r][i])
          /\ failed[r] # "none"
                => /\ out'[r] = out[r]
                   /\ failed'[r] = failed[r] ]_vars

C3_Witness ==
    \E r \in Exports :
        /\ failed[r] = "fetch"
        /\ Len(out[r]) = 2
        /\ ~IsError(out[r][1])
        /\ out[r][2] = ErrorLine("fetch")

\* The place of a dataset name in `queries`.
CatIndex(k) == CHOOSE i \in 1..Len(queries) : queries[i] = k

\* The export ran to its end: no exception, no client gone.
CleanEnd(r) == pc[r] = "done" /\ failed[r] = "none" /\ ~disc[r]

LinesOf(r, k) == SelectSeq(out[r], LAMBDA line : line.type = k)

RECURSIVE ConcatData(_)
ConcatData(lines) ==
    IF lines = << >> THEN << >> ELSE Head(lines).data \o ConcatData(Tail(lines))

\* C4: the success lines of an export come in the order of the catalog,
\* all lines of an earlier entry before any line of a later one; and an
\* export that ends without failure has run every catalog statement once,
\* in catalog order, and holds no error line and, for each entry, the
\* group of its lines: as many as the fetcher produced chunks for it.
C4_GroupsInCatalogOrder ==
    \A r \in Exports :
        /\ \A i, j \in 1..Len(out[r]) :
              (i < j /\ ~IsError(out[r][i]) /\ ~IsError(out[r][j]))
                  => CatIndex(out[r][i].type) <= CatIndex(out[r][j].type)
        /\ CleanEnd(r) =>
              /\ \A i \in 1..Len(out[r]) : ~IsError(out[r][i])
              /\ stmts[r] = SubSeq(queries, 1, NumDatasets)
              /\ \A k \in CatalogNames : Len(LinesOf(r, k)) = nchunks[r][k]

C4_Witness ==
    \E r \in Exports :
        /\ CleanEnd(r)
        /\ Len(out[r]) = 3
        /\ out[r][1].type = queries[1]
        /\ out[r][2].type = queries[1]
        /\ out[r][3].type = queries[2]

\* The batch sequence of catalog entry k ended (StopIteration).
Completed(r, k) ==
    \E i \in 1..Len(Catalog) :
        /\ Catalog[i] = k
        /\ \/ i < ds[r]
           \/ i = ds[r] /\ pc[r] = "done" /\ failed[r] = "none" /\ ~disc[r]

\* C5: the data arrays of the lines of a dataset, concatenated in the order
\* of emission, are the encoded rows of its result from the first on, none
\* lost, repeated or out of place; and once the dataset's batch sequence
\* has ended there is one line per chunk the fetcher produced and the
\* concatenation is the whole row sequence.
C5_ChunksReproduceRows ==
    \A r \in Exports :
        \A k \in CatalogNames :
            LET lines == LinesOf(r, k)
            IN  /\ IsPrefix(ConcatData(lines), DumpData(rows[r][k]))
                /\ Len(lines) <= nchunks[r][k]
                /\ Completed(r, k) =>
                      /\ Len(lines) = nchunks[r][k]
                      /\ ConcatData(lines) = DumpData(rows[r][k])

C5_Witness ==
    \E r \in Exports :
        /\ Completed(r, queries[1])
        /\ nchunks[r][queries[1]] = 2
        /\ Len(rows[r][queries[1]]) = 3
        /\ Len(LinesOf(r, queries[1])) = 2

\* C6: when a statement or a fetch fails, that step appends the one error
\* line to the lines yielded so far (all of them of the failing entry or of
\* earlier ones); from then on no statement is executed, no chunk fetched
\* and no line yielded; and when the export is over its session is closed.
C6_FailureAbortsExport ==
    /\ [][ \A r \in Exports :
             /\ (failed[r] = "none" /\ failed'[r] \in {"execute", "fetch"})
                   => /\ out'[r] = Append(out[r], ErrorLine(failed'[r]))
                      /\ \A i \in 1..Len(out[r]) :
                            /\ ~IsError(out[r][i])
                            /\ CatIndex(out[r][i].type) <= ds[r]
             /\ failed[r] \in {"execute", "fetch"}
                   => /\ stmts'[r] = stmts[r]
                      /\ nchunks'[r] = nchunks[r]
                      /\ batch'[r] = batch[r]
                      /\ out'[r] = out[r] ]_vars
    /\ [](\A r \in Exports :
             (failed[r] \in {"execute", "fetch"} /\ pc[r] = "done")
                 => /\ acq[r] # 0
                    /\ sess[acq[r]] = "closed"
                    /\ closes[r] = 1)

C6_Witness ==
    \E r \in Exports :
        /\ pc[r] = "done"
        /\ failed[r] = "execute"
        /\ stmts[r] = << queries[1], queries[2] >>
        /\ Len(out[r]) = 2
        /\ out[r][1].type = queries[1]
        /\ out[r][2] = ErrorLine("execute")
        /\ sess[acq[r]] = "closed"

\* The tokens json.dumps writes for float('nan'), float('inf') and
\* float('-inf'); none is JSON.
NonFiniteTokens == {"NaN", "Infinity", "-Infinity"}

HasNonFinite(chunk) == \E i \in 1..Len(chunk) : chunk[i] = "nan"

\* C7: no success line of an export holds a non-finite numeric token (a
\* NaN or infinite cell is written as null).
C7_NoNonFiniteToken ==
    \A r \in Exports :
        \A i \in 1..Len(out[r]) :
            ~IsError(out[r][i]) =>
                \A j \in 1..Len(out[r][i].data) :
                    out[r][i].data[j] \notin NonFiniteTokens

\* C8: encoding a chunk that holds a non-finite value fails: the step
\* raises instead of yielding a line.
C8_EncoderRejectsNonFinite ==
    [][ \A r \in Exports :
          (pc[r] = "encoding" /\ pc'[r] # "encoding" /\ HasNonFinite(batch[r]))
              => /\ failed'[r] # "none"
                 /\ IsError(Last(out'[r])) ]_vars

\* C9: with PRIVATE_KEY_STR absent or empty, no request ever calls
\* connect, executes a statement or closes a session; an export, once
\* started, has yielded the missing-key error line and nothing else, and a
\* query is never answered with rows.
C9_MissingKeyFailsFirst ==
    env.key \in {"absent", "empty"} =>
        \A r \in Req :
            /\ connects[r] = 0
            /\ acq[r] = 0
            /\ stmts[r] = << >>
            /\ closes[r] = 0
            /\ r \in Exports =>
                  /\ out[r] = IF failed[r] = "none" THEN << >>
                              ELSE << ErrorLine("key_missing") >>
                  /\ failed[r] = "none" => (pc[r] = "idle" \/ (pc[r] = "done" /\ disc[r]))
            /\ r \in Queries => resp[r] # 200

C9_Witness ==
    \E r \in Exports :
        /\ env.key = "empty"
        /\ pc[r] = "done"
        /\ ~disc[r]
        /\ out[r] = << ErrorLine("key_missing") >>

\* C10 as claimed: in both programs session establishment requires account
\* and user and nothing else.
C10_RequiresExactlyAccountAndUser ==
    \A r \in Req :
        /\ env.missing \cap {"account", "user"} # {} => connects[r] = 0
        /\ env.missing \cap {"account", "user"} = {} => failed[r] # "config"

\* The variables each get_snowflake_connection requires.
Required(r) ==
    IF handler[r] = "api_query"
    THEN {"account", "user", "warehouse", "database", "schema"}
    ELSE {"account", "user"}

\* C10, amended: the export (app.py) requires account and user, the query
\* (proxy_server.py) account, user, warehouse, database and schema.  With a
\* required variable missing connect is never called and no session is
\* acquired; with all of them set, establishment never fails for a missing
\* variable, whatever else (role; for the export also warehouse, database
\* and schema) is absent.
C10_RequiredParameters ==
    \A r \in Req :
        /\ env.missing \cap Required(r) # {} =>
              /\ connects[r] = 0
              /\ acq[r] = 0
              /\ (r \in Queries /\ pc[r] = "done" /\ resp[r] = 500)
                    => failed[r] \in {"config", "attribute"}
        /\ env.missing \cap Required(r) = {} => failed[r] # "config"

C10_Witness ==
    \E r \in Queries :
        /\ env.missing = {"role"}
        /\ connects[r] = 1
        /\ resp[r] = 200


(* ------------------------------- C11 ---------------------------------- *)

\* The bytes the stated credential loader hands to the PEM parser: the
\* decoded bytes when decoding succeeded and they look like PEM, the raw
\* text of the variable otherwise.
C11_StatedBytes(k) ==
    IF ~B64Decode(k).raised /\ B64Decode(k).bytes = "pem"
    THEN B64Decode(k).bytes ELSE EncodeUtf8(k)

\* C11: whenever a key is present the PEM parser is called, no request fails
\* on base64 decoding, and the parser receives the decoded bytes only when
\* they look like PEM and the raw bytes of the variable in every other case.
C11_FallsBackToRawPem ==
    \A r \in Req :
        /\ failed[r] # "key_decode"
        /\ parsed[r] # "none" => parsed[r] = C11_StatedBytes(env.key)

(* ------------------------------- C12 ---------------------------------- *)

\* C12: when the client disconnects while the generator is suspended at an
\* emitted line, that step executes no statement, fetches no chunk and emits
\* no line (no error line either) and releases the session it holds (after
\* a success line it always holds one), exactly once;
\* and after a disconnect nothing more is executed, fetched, emitted or closed.
C12_DisconnectStopsExport ==
    [][\A r \in Exports :
          /\ (~disc[r] /\ disc'[r] /\ pc[r] \in {"yielded", "yielded_error"}) =>
                /\ out'[r] = out[r]
                /\ stmts'[r] = stmts[r]
                /\ nchunks'[r] = nchunks[r]
                /\ failed'[r] = failed[r]
                /\ pc[r] = "yielded" => conn[r] # 0
                /\ conn[r] # 0 =>
                      /\ sess[conn[r]] = "open"
                      /\ sess'[conn[r]] = "closed"
                      /\ closes'[r] = closes[r] + 1
                /\ pc'[r] = "done"
          /\ disc[r] =>
                /\ out'[r] = out[r]
                /\ stmts'[r] = stmts[r]
                /\ nchunks'[r] = nchunks[r]
                /\ closes'[r] = closes[r]
                /\ pc'[r] = "done"]_vars

\* A client has disconnected after a success line, with rows of the current
\* result still unfetched, and the session is released.
C12_Witness ==
    \E r \in Exports :
        /\ disc[r]
        /\ out[r] # << >>
        /\ ~IsError(Last(out[r]))
        /\ pending[r] # << >>
        /\ sess[conn[r]] = "closed"
        /\ closes[r] = 1

(* ------------------------------- C13 ---------------------------------- *)

RECURSIVE SumOf(_, _)
SumOf(f, S) ==
    IF S = {} THEN 0
    ELSE LET x == CHOOSE y \in S : TRUE
         IN  f[x] + SumOf(f, S \ {x})

\* The chunks an export has fetched, and the success lines it has emitted.
Fetched(r) == SumOf(nchunks[r], CatalogNames)

Emitted(r) == Len(SelectSeq(out[r], LAMBDA line : ~IsError(line)))

\* C13: at most one fetched chunk is not yet emitted, and only while it is
\* being encoded (or after its encoding failed); and whenever an export
\* fetches a chunk or executes a statement, every chunk fetched before has
\* already been handed to the output as a line.
C13_OneBatchInFlight ==
    /\ [](\A r \in Exports :
            /\ Fetched(r) - Emitted(r) \in {0, 1}
            /\ Fetched(r) - Emitted(r) = 1 =>
                    pc[r] = "encoding" \/ failed[r] = "encode")
    /\ [][\A r \in Exports :
            (nchunks'[r] # nchunks[r] \/ stmts'[r] # stmts[r]) =>
                /\ Fetched(r) = Emitted(r)
                /\ batch[r] = << >>]_vars

\* An export has emitted two chunks of its first dataset and then executed
\* the statement of the second.
C13_Witness ==
    \E r \in Exports :
        /\ nchunks[r][Catalog[1]] >= 2
        /\ Len(LinesOf(r, Catalog[1])) >= 2
        /\ Len(stmts[r]) = 2

(* ------------------------------- C14 ---------------------------------- *)

\* C14: whatever the kinds of the cells of a fetched chunk (a decimal and a
\* time of day are cells of kind "obj"), encoding the chunk does not fail
\* the export: the step emits one success line with one token per record.
C14_EveryCellKindEncodes ==
    [][\A r \in Exports :
          (pc[r] = "encoding" /\ pc'[r] # "encoding") =>
              /\ failed'[r] = "none"
              /\ Len(out'[r]) = Len(out[r]) + 1
              /\ ~IsError(Last(out'[r]))
              /\ Len(Last(out'[r]).data) = Len(batch[r])]_vars

(* ------------------------------- C15 ---------------------------------- *)

\* C15: the first statement a request executes on its session is the
\* verification query, and a statement of the request itself (a catalog
\* statement of the export, the SQL of a query) is executed only on a
\* session whose verification succeeded.
C15_VerifiedBeforeUse ==
    \A r \in Req :
        stmts[r] # << >> =>
            /\ stmts[r][1] = "verify"
            /\ Len(stmts[r]) > 1 => conn[r] # 0

(* ------------------------------- C16 ---------------------------------- *)

\* C16: of two concurrent requests each holds a session of its own; the
\* session of a request that is not over is open, whatever the other
\* request did (failed, was abandoned, released its own), and a session is
\* closed only by its own request; and the lines of an output stream are the
\* encoded rows of the results returned to that request, and the error line
\* of that request's own failure.
C16_RequestsAreIsolated ==
    /\ \A r, q \in Req :
          (r # q /\ acq[r] # 0) => acq[q] # acq[r]
    /\ \A r \in Req :
          /\ (conn[r] # 0 /\ pc[r] # "done") => sess[conn[r]] = "open"
          /\ (acq[r] # 0 /\ sess[acq[r]] = "closed") => closes[r] = 1
          /\ acq[r] = 0 => closes[r] = 0
    /\ \A r \in Exports :
          /\ \A k \in CatalogNames :
                IsPrefix(ConcatData(LinesOf(r, k)), DumpData(rows[r][k]))
          /\ \A i \in 1..Len(out[r]) :
                /\ out[r][i].type \in CatalogNames \cup {"error"}
                /\ IsError(out[r][i]) => out[r][i] = ErrorLine(failed[r])

\* Of two concurrent exports, both with a session acquired, one has failed,
\* emitted its error line and released its session; the other is suspended
\* at a line of data with its session open.
C16_Witness ==
    \E r, q \in Exports :
        /\ r # q
        /\ acq[r] # 0
        /\ Emitted(q) >= 1
        /\ out[r] = << ErrorLine(failed[r]) >>
        /\ pc[r] = "done"
        /\ closes[r] = 1
        /\ pc[q] = "yielded"
        /\ sess[conn[q]] = "open"

(* ------------------------------- C17 ---------------------------------- *)

\* C17: when the chunk being encoded holds a cell of a type json_converter
\* does not handle, the step emits no success line for the chunk but
\* exactly one error line; from then on the export fetches no chunk,
\* executes no statement and emits no line; and when it is over its session
\* is released and its output has that one error line and a success line
\* for every chunk fetched but the failed one.
C17_EncodingFailureEndsExport ==
    /\ [][\A r \in Exports :
            /\ ( /\ pc[r] = "encoding"
                 /\ pc'[r] # "encoding"
                 /\ \E i \in 1..Len(batch[r]) : batch[r][i] = "obj" ) =>
                    /\ out'[r] = Append(out[r], ErrorLine("encode"))
                    /\ failed'[r] = "encode"
                    /\ nchunks'[r] = nchunks[r]
                    /\ stmts'[r] = stmts[r]
            /\ failed[r] = "encode" =>
                    /\ out'[r] = out[r]
                    /\ nchunks'[r] = nchunks[r]
                    /\ stmts'[r] = stmts[r]
                    /\ failed'[r] = "encode"]_vars
    /\ [](\A r \in Exports :
            failed[r] = "encode" =>
                /\ Len(SelectSeq(out[r], IsError)) = 1
                /\ Emitted(r) = Fetched(r) - 1
                /\ pc[r] = "done" =>
                      /\ sess[conn[r]] = "closed"
                      /\ closes[r] = 1)

\* An export is over after an encoding failure in its first dataset, past
\* an emitted chunk, with rows of the result unfetched and the second
\* statement never executed; its session is released.
C17_Witness ==
    \E r \in Exports :
        /\ failed[r] = "encode"
        /\ pc[r] = "done"
        /\ Emitted(r) >= 1
        /\ pending[r] # << >>
        /\ stmts[r] = << Catalog[1] >>
        /\ closes[r] = 1

(* ------------------------------- C18 ---------------------------------- *)

\* The trimmed texts of SqlTexts that start with SELECT in any case.
C18_StartsWithSelect ==
    { << "s", "e", "l", "e", "c", "t", " ", "1" >>,
      << "S", "e", "l", "e", "c", "t", " ", "1" >>,
      << "S", "E", "L", "E", "C", "T", "X" >> }

\* C18: a query whose SQL text, trimmed, is empty or does not start with
\* SELECT in any case is answered 400 with no connection opened, no key
\* parsed, no statement executed and nothing released; a query whose text
\* does start with SELECT is not answered 400; and only such a query ever
\* reaches get_snowflake_connection.  (SQL that is not text is answered
\* 500, also before any session.)
C18_RejectsBeforeSession ==
    \A r \in Queries :
        /\ resp[r] = 400 =>
              /\ sql[r] \notin C18_StartsWithSelect
              /\ pc[r] = "done"
              /\ connects[r] = 0
              /\ parsed[r] = "none"
              /\ acq[r] = 0
              /\ stmts[r] = << >>
              /\ closes[r] = 0
        /\ (pc[r] # "idle" /\ failed[r] # "attribute") =>
              (resp[r] = 400 <=> sql[r] \notin C18_StartsWithSelect)
        /\ failed[r] = "attribute" =>
              /\ resp[r] = 500
              /\ connects[r] = 0
              /\ acq[r] = 0
        /\ ( \/ pc[r] \in {"q_connect", "q_verify", "q_execute", "q_finally"}
             \/ connects[r] > 0
             \/ parsed[r] # "none"
             \/ stmts[r] # << >> ) =>
              sql[r] \in C18_StartsWithSelect

\* A query whose text is not empty and does not start with SELECT has been
\* answered 400.
C18_Witness ==
    \E r \in Queries :
        /\ resp[r] = 400
        /\ sql[r] = << "d", "r", "o", "p" >>
====
